---- MODULE Spec2Model ----
(***************************************************************************)
(* Batch Freezing Log page of src/haccp.py (lines 404-581): a Streamlit   *)
(* script that every browser session re-runs from top to bottom.  The      *)
(* sessions share one CSV file (LOG_PATH) that each submission reads in    *)
(* full and writes back in full, and one roster file (EMPLOYEE_CSV).       *)
(***************************************************************************)
EXTENDS Integers, Sequences, FiniteSets, TLC

(***************************************************************************)
(* Bounds                                                                  *)
(***************************************************************************)
MaxClock == 1        \* the wall clock reads 0..MaxClock and never runs backwards
MaxEdits == 2        \* widget values changed from their defaults, summed over
                     \* all submitted forms
MaxChoices == 2      \* a user picks among the first MaxChoices options

Sessions == {"s1", "s2"}

None == "<None>"     \* Python's None (also what an empty selectbox returns)

(***************************************************************************)
(* Text tables.  TLA+ strings are opaque, so what the code does to a text  *)
(* (strip, lower, str(), isoformat, number parsing) is tabulated for the   *)
(* texts the model uses.                                                   *)
(***************************************************************************)
Range(q) == {q[i] : i \in 1..Len(q)}

Min(a, b) == IF a < b THEN a ELSE b

\* str.strip()
Strip(t) ==
    CASE t = " " -> ""
      [] t = " ok" -> "ok"
      [] t = "Ben Kim " -> "Ben Kim"
      [] OTHER -> t

\* str.lower()
Lower(t) ==
    CASE t = "Yes" -> "yes"
      [] t = "No" -> "no"
      [] OTHER -> t

\* datetime.now().isoformat(timespec="seconds") for the clock value n
TimestampText == << "2025-01-10T08:00:00", "2025-01-10T08:00:01",
                    "2025-01-10T08:00:02", "2025-01-10T08:00:03" >>

IsoFormat(n) == TimestampText[n + 1]

ClockOf(t) == CHOOSE n \in 0..(Len(TimestampText) - 1) : IsoFormat(n) = t

\* str(date) for the day d
DateText == << "2025-01-09", "2025-01-10", "2025-01-11", "2025-01-12" >>

DateStr(d) == DateText[d]

DateOf(t) == CHOOSE d \in 1..Len(DateText) : DateStr(d) = t

\* date.today(), the default of both date pickers
Today == 1

(***************************************************************************)
(* CSV cells.  A file holds texts; a DataFrame holds typed cells.          *)
(***************************************************************************)
StrCell(t) == [k |-> "str", s |-> t, n |-> 0]
IntCell(i) == [k |-> "int", s |-> "", n |-> i]
FloatCell(i) == [k |-> "float", s |-> "", n |-> i]    \* the float i.0
NaNCell == [k |-> "nan", s |-> "", n |-> 0]
NoneCell == [k |-> "none", s |-> "", n |-> 0]

\* pandas' default na_values that occur among the model's texts
NaTexts == {""}

\* texts the C parser reads as an integer, and their values
IntLiterals == {"007", "7"}
IntValue(t) == 7

\* texts the C parser reads as a float (and not as an integer)
FloatLiterals == {"7.0"}
FloatValue(t) == 7

IntText(i) == "7"        \* str(7)
FloatText(i) == "7.0"    \* repr(7.0)

\* DataFrame.to_csv's text of one cell (na_rep = "")
CellText(c) ==
    CASE c.k = "str" -> c.s
      [] c.k = "int" -> IntText(c.n)
      [] c.k = "float" -> FloatText(c.n)
      [] OTHER -> ""

\* pd.read_csv's type inference over one column of texts
InferColumn(texts) ==
    LET vals == {texts[i] : i \in 1..Len(texts)} \ NaTexts
        hasNa == \E i \in 1..Len(texts) : texts[i] \in NaTexts
    IN  IF vals = {}
        THEN [i \in 1..Len(texts) |-> NaNCell]
        ELSE IF vals \subseteq IntLiterals /\ ~hasNa
        THEN [i \in 1..Len(texts) |-> IntCell(IntValue(texts[i]))]
        ELSE IF vals \subseteq (IntLiterals \cup FloatLiterals)
        THEN [i \in 1..Len(texts) |->
                IF texts[i] \in NaTexts THEN NaNCell
                ELSE IF texts[i] \in IntLiterals
                     THEN FloatCell(IntValue(texts[i]))
                     ELSE FloatCell(FloatValue(texts[i]))]
        ELSE [i \in 1..Len(texts) |->
                IF texts[i] \in NaTexts THEN NaNCell ELSE StrCell(texts[i])]

\* the fixed ten-column schema
Columns == {"timestamp", "batch_date", "batch_id", "freezer_operator",
            "mixer_name", "second_tester_name", "mix_expiration_date",
            "mixer_taste_tested", "second_tester_taste_tested", "notes"}

\* pd.read_csv of the data lines of a file: a sequence of rows of cells
ReadCsv(rows) ==
    [i \in 1..Len(rows) |->
        [c \in Columns |-> InferColumn([j \in 1..Len(rows) |-> rows[j][c]])[i]]]

\* DataFrame.to_csv(index=False): the data lines of a frame
ToCsv(frame) ==
    [i \in 1..Len(frame) |-> [c \in Columns |-> CellText(frame[i][c])]]

\* what a write of `new` at offset 0 leaves of a file that held `old`
Overlay(old, new) == new \o SubSeq(old, Len(new) + 1, Len(old))


(***************************************************************************)
(* Employee directory                                                      *)
(***************************************************************************)
\* the hardcoded fallback list, in the order of the source
FallbackNames == << "Alice Martinez", "Ben Kim", "Carla Rossi",
                    "Diego Alvarez", "Eva Chen" >>

\* lexicographic rank of the names the model uses (for sort_values)
NameRank(t) ==
    CASE t = "Alice Martinez" -> 1
      [] t = "Ben Kim" -> 2
      [] t = "Carla Rossi" -> 3
      [] t = "Diego Alvarez" -> 4
      [] OTHER -> 5

RECURSIVE SortNames(_)
SortNames(S) ==
    IF S = {} THEN << >>
    ELSE LET m == CHOOSE x \in S : \A y \in S : NameRank(x) <= NameRank(y)
         IN  << m >> \o SortNames(S \ {m})

\* contents the roster file employees.csv can have
RosterAbsent == [exists |-> FALSE, readable |-> FALSE, cols |-> {}, rows |-> << >>]
RosterBroken == [exists |-> TRUE, readable |-> FALSE, cols |-> {}, rows |-> << >>]
RosterEmpty == [exists |-> TRUE, readable |-> TRUE, cols |-> {"full_name"},
                rows |-> << >>]
RosterSolo == [exists |-> TRUE, readable |-> TRUE, cols |-> {"full_name"},
               rows |-> << [full_name |-> "Alice Martinez", is_active |-> ""] >>]
RosterTeam == [exists |-> TRUE, readable |-> TRUE,
               cols |-> {"full_name", "username", "is_active"},
               rows |-> << [full_name |-> "Ben Kim ", is_active |-> "Yes"],
                           [full_name |-> "Alice Martinez", is_active |-> ""],
                           [full_name |-> "Carla Rossi", is_active |-> "No"],
                           [full_name |-> "", is_active |-> "Yes"],
                           [full_name |-> "Ben Kim", is_active |-> "Yes"] >>]

RosterFiles == {RosterAbsent, RosterBroken, RosterEmpty, RosterSolo, RosterTeam}

\* Series.astype(str) of one cell
AsTypeStr(c) == IF c.k = "nan" THEN "nan" ELSE CellText(c)

\* load_employee_names(): the sorted list of names, or the fallback list
load_employee_names(r) ==
    IF r.exists /\ r.readable /\ "full_name" \in r.cols
    THEN LET n == Len(r.rows)
             active == InferColumn([i \in 1..n |-> r.rows[i].is_active])
             full == InferColumn([i \in 1..n |-> r.rows[i].full_name])
             keep == {i \in 1..n :
                        \/ "is_active" \notin r.cols
                        \/ Lower(AsTypeStr(active[i])) \in {"1", "true", "yes"}
                        \/ active[i].k = "nan"}
             names == {Strip(AsTypeStr(full[i])) : i \in {j \in keep : full[j].k # "nan"}}
         IN  SortNames({x \in names : x # ""})
    ELSE FallbackNames

(***************************************************************************)
(* State                                                                   *)
(***************************************************************************)
VARIABLES
    file,         \* data/batch_freezing_log.csv: exists, header line, data lines
    now,          \* the latest reading of the wall clock, in seconds
    edits,        \* widget values changed so far in submitted forms
    acked,        \* lines whose save was confirmed to a user, in that order
    pc,           \* where each session's script run stands
    user,         \* st.session_state["user_full_name"] of each session
    employee_names,
    cand,         \* the widget values of the run
    submitted,
    errors,
    record,
    df,           \* the frame the submit handler read and extended
    result        \* the message the submit handler showed

vars == << file, now, edits, acked, pc, user, employee_names, cand,
           submitted, errors, record, df, result >>

shared == << file, now, edits, acked >>

NoFile == [exists |-> FALSE, hdr |-> FALSE, rows |-> << >>]

\* a file just opened with mode "w": zero bytes
Truncated == [exists |-> TRUE, hdr |-> FALSE, rows |-> << >>]

\* the widget defaults of the form
DefaultCand(names, choices) ==
    [batch_date |-> Today, mix_exp_date |-> Today, batch_id |-> "",
     mixer_name |-> IF names = << >> THEN None ELSE names[1],
     second_tester_name |->
        IF choices = << >> THEN None
        ELSE choices[IF Len(choices) > 1 THEN Min(1, Len(choices) - 1) + 1 ELSE 1],
     mixer_taste_tested |-> "Yes", second_tester_taste_tested |-> "Yes",
     notes |-> ""]

NoCand == DefaultCand(<< >>, << >>)

NoRecord == [c \in Columns |-> NoneCell]

Init ==
    /\ file = NoFile
    /\ now = 0
    /\ edits = 0
    /\ acked = << >>
    /\ pc = [s \in Sessions |-> "idle"]
    /\ user = [s \in Sessions |-> None]
    /\ employee_names = [s \in Sessions |-> << >>]
    /\ cand = [s \in Sessions |-> NoCand]
    /\ submitted = [s \in Sessions |-> FALSE]
    /\ errors = [s \in Sessions |-> << >>]
    /\ record = [s \in Sessions |-> NoRecord]
    /\ df = [s \in Sessions |-> << >>]
    /\ result = [s \in Sessions |-> "none"]

(***************************************************************************)
(* One script run of a session, top to bottom                              *)
(***************************************************************************)
\* a (re)run starts; ensure_dirs_and_log tests whether the file exists
StartRun(s) ==
    /\ pc[s] = "idle"
    /\ pc' = [pc EXCEPT ![s] = IF file.exists THEN "login" ELSE "ensure_open"]
    /\ UNCHANGED << shared, user, employee_names, cand, submitted, errors,
                    record, df, result >>

\* ensure_dirs_and_log: to_csv opens LOG_PATH with mode "w"
EnsureOpen(s) ==
    /\ pc[s] = "ensure_open"
    /\ file' = Truncated
    /\ pc' = [pc EXCEPT ![s] = "ensure_flush"]
    /\ UNCHANGED << now, edits, acked, user, employee_names, cand,
                    submitted, errors, record, df, result >>

\* ensure_dirs_and_log: to_csv writes the header line at offset 0 and closes
EnsureFlush(s) ==
    /\ pc[s] = "ensure_flush"
    /\ file' = [exists |-> TRUE, hdr |-> TRUE, rows |-> Overlay(file.rows, << >>)]
    /\ pc' = [pc EXCEPT ![s] = "login"]
    /\ UNCHANGED << now, edits, acked, user, employee_names, cand,
                    submitted, errors, record, df, result >>

\* the options of a selectbox a user can pick, None when there are none
Options(q) ==
    IF q = << >> THEN {None} ELSE {q[i] : i \in 1..Min(Len(q), MaxChoices)}

\* load_employee_names of what employees.csv holds at this moment, then
\* get_logged_in_user_name with a name in the session: on to the form
LoggedIn(s, Rosters) ==
    /\ pc[s] = "login"
    /\ user[s] # None
    /\ \E roster \in Rosters :
          employee_names' = [employee_names EXCEPT ![s] = load_employee_names(roster)]
    /\ pc' = [pc EXCEPT ![s] = "form"]
    /\ UNCHANGED << shared, user, cand, submitted, errors, record, df, result >>

\* load_employee_names, then get_logged_in_user_name in demo mode: pick a
\* name and press the button (the name is stored and the script reruns), or
\* do not and st.stop()
DemoLogin(s, Rosters) ==
    /\ pc[s] = "login"
    /\ user[s] = None
    /\ \E roster \in Rosters : \E press \in BOOLEAN :
       \E demo_name \in Options(load_employee_names(roster)) :
          user' = [user EXCEPT ![s] = IF press THEN demo_name ELSE None]
    /\ pc' = [pc EXCEPT ![s] = "idle"]
    /\ UNCHANGED << shared, employee_names, cand, submitted, errors, record, df,
                    result >>

\* second_choices without the removal of the operator
second_choicesAll(names, current_user) == names

\* the options of the Second Tester selectbox
second_choices(names, current_user) ==
    SelectSeq(names, LAMBDA n : n # current_user \/ Len(names) = 1)

DateInputs == {Today, Today + 1}
BatchIdInputs == {"", " ", "B-1", "007"}
TwoBatchIds == {"", "B-1", "B-2"}
NotesInputs == {"", " ok"}

Bit(b) == IF b THEN 1 ELSE 0

\* number of widgets whose value differs from the default
Edits(c, d) ==
    Bit(c.batch_date # d.batch_date) + Bit(c.mix_exp_date # d.mix_exp_date)
    + Bit(c.batch_id # d.batch_id) + Bit(c.mixer_name # d.mixer_name)
    + Bit(c.second_tester_name # d.second_tester_name)
    + Bit(c.mixer_taste_tested # d.mixer_taste_tested)
    + Bit(c.second_tester_taste_tested # d.second_tester_taste_tested)
    + Bit(c.notes # d.notes)

\* the widget values a user can send with one run of the form, changing at
\* most `budget` widgets from their defaults (built widget group by widget
\* group, so that the budget prunes early)
FormInputs(names, choices, budget) ==
    LET d == DefaultCand(names, choices)
        EA(a) == Bit(a[1] # d.batch_date) + Bit(a[2] # d.mix_exp_date)
                 + Bit(a[3] # d.batch_id)
        A == {a \in DateInputs \X DateInputs \X BatchIdInputs : EA(a) <= budget}
        EB(b) == EA(b[1]) + Bit(b[2] # d.mixer_name)
                 + Bit(b[3] # d.second_tester_name)
        B == {b \in A \X Options(names) \X Options(choices) : EB(b) <= budget}
        EC(c) == EB(c[1]) + Bit(c[2] # d.mixer_taste_tested)
                 + Bit(c[3] # d.second_tester_taste_tested) + Bit(c[4] # d.notes)
        C == {c \in B \X {"Yes", "No"} \X {"Yes", "No"} \X NotesInputs :
                EC(c) <= budget}
    IN  {[batch_date |-> c[1][1][1], mix_exp_date |-> c[1][1][2],
          batch_id |-> c[1][1][3], mixer_name |-> c[1][2],
          second_tester_name |-> c[1][3], mixer_taste_tested |-> c[2],
          second_tester_taste_tested |-> c[3], notes |-> c[4]] : c \in C}

\* the same, for a user who only types one of two ids into the Batch ID field
IdInputs(names, choices, budget) ==
    {[DefaultCand(names, choices) EXCEPT !.batch_id = b] :
        b \in {x \in TwoBatchIds : Bit(x # "") <= budget}}

\* the widget values the users of a scenario send: every widget, or ids only
InputsOf(scenario, names, choices, budget) ==
    IF scenario = "ids" THEN IdInputs(names, choices, budget)
    ELSE FormInputs(names, choices, budget)

MissingIdMsg == "Please enter a Batch ID / Code."
DateOrderMsg == "Mix expiration date cannot be earlier than the batch date."

\* Validate without the batch id rule
ValidateNoId(c) ==
    IF c.mix_exp_date < c.batch_date THEN << DateOrderMsg >> ELSE << >>

\* Validate without the date order rule
ValidateNoDate(c) ==
    IF c.batch_id = "" THEN << MissingIdMsg >> ELSE << >>

\* the "Basic validations" block
Validate(c) ==
    (IF c.batch_id = "" THEN << MissingIdMsg >> ELSE << >>)
    \o (IF c.mix_exp_date < c.batch_date THEN << DateOrderMsg >> ELSE << >>)

\* the form: widget values, validations, submit button
Form(s, scenario) ==
    /\ pc[s] = "form"
    /\ \E press \in BOOLEAN :
       LET choices == second_choices(employee_names[s], user[s])
           d == DefaultCand(employee_names[s], choices)
       IN \E c \in IF press THEN InputsOf(scenario, employee_names[s], choices,
                                              MaxEdits - edits)
                            ELSE {d} :
          /\ cand' = [cand EXCEPT ![s] = c]
          /\ errors' = [errors EXCEPT ![s] = Validate(c)]
          /\ submitted' = [submitted EXCEPT ![s] = press]
          /\ edits' = edits + Edits(c, d)
    /\ pc' = [pc EXCEPT ![s] = "submit"]
    /\ UNCHANGED << file, now, acked, user, employee_names, record, df,
                    result >>

\* `if submitted:` is false
NotSubmitted(s) ==
    /\ pc[s] = "submit"
    /\ ~submitted[s]
    /\ pc' = [pc EXCEPT ![s] = "recent"]
    /\ UNCHANGED << shared, user, employee_names, cand, submitted, errors,
                    record, df, result >>

\* `if errors:` every message is shown, nothing else happens
Reject(s) ==
    /\ pc[s] = "submit"
    /\ submitted[s]
    /\ errors[s] # << >>
    /\ result' = [result EXCEPT ![s] = "rejected"]
    /\ pc' = [pc EXCEPT ![s] = "recent"]
    /\ UNCHANGED << shared, user, employee_names, cand, submitted, errors,
                    record, df >>

NameCell(n) == IF n = None THEN NoneCell ELSE StrCell(n)

\* the record dict of the submit handler
MakeRecord(c, current_user, clock) ==
    [col \in Columns |->
        CASE col = "timestamp" -> StrCell(IsoFormat(clock))
          [] col = "batch_date" -> StrCell(DateStr(c.batch_date))
          [] col = "batch_id" -> StrCell(Strip(c.batch_id))
          [] col = "freezer_operator" -> NameCell(current_user)
          [] col = "mixer_name" -> NameCell(c.mixer_name)
          [] col = "second_tester_name" -> NameCell(c.second_tester_name)
          [] col = "mix_expiration_date" -> StrCell(DateStr(c.mix_exp_date))
          [] col = "mixer_taste_tested" -> StrCell(c.mixer_taste_tested)
          [] col = "second_tester_taste_tested" -> StrCell(c.second_tester_taste_tested)
          [] OTHER -> StrCell(Strip(c.notes))]

\* no errors: the record is built, stamped with datetime.now()
BuildRecord(s) ==
    /\ pc[s] = "submit"
    /\ submitted[s]
    /\ errors[s] = << >>
    /\ \E clock \in now..MaxClock :
          /\ now' = clock
          /\ record' = [record EXCEPT ![s] = MakeRecord(cand[s], user[s], clock)]
    /\ pc' = [pc EXCEPT ![s] = "append_read"]
    /\ UNCHANGED << file, edits, acked, user, employee_names, cand, submitted,
                    errors, df, result >>

\* pd.read_csv(LOG_PATH) if the file exists, else an empty frame; then concat.
\* A file of zero bytes raises EmptyDataError, which the handler reports.
AppendRead(s) ==
    /\ pc[s] = "append_read"
    /\ IF file.exists /\ ~file.hdr
       THEN /\ result' = [result EXCEPT ![s] = "failed"]
            /\ pc' = [pc EXCEPT ![s] = "recent"]
            /\ df' = df
       ELSE /\ df' = [df EXCEPT ![s] = ReadCsv(file.rows) \o << record[s] >>]
            /\ pc' = [pc EXCEPT ![s] = "append_open"]
            /\ result' = result
    /\ UNCHANGED << shared, user, employee_names, cand, submitted, errors, record >>

\* df.to_csv(LOG_PATH) opens the file with mode "w"
AppendOpen(s) ==
    /\ pc[s] = "append_open"
    /\ file' = Truncated
    /\ pc' = [pc EXCEPT ![s] = "append_flush"]
    /\ UNCHANGED << now, edits, acked, user, employee_names, cand,
                    submitted, errors, record, df, result >>

\* df.to_csv writes header and lines from offset 0 and closes; st.success
AppendFlush(s) ==
    /\ pc[s] = "append_flush"
    /\ file' = [exists |-> TRUE, hdr |-> TRUE,
                rows |-> Overlay(file.rows, ToCsv(df[s]))]
    /\ result' = [result EXCEPT ![s] = "saved"]
    /\ acked' = Append(acked, ToCsv(<< record[s] >>)[1])
    /\ pc' = [pc EXCEPT ![s] = "recent"]
    /\ UNCHANGED << now, edits, user, employee_names, cand, submitted,
                    errors, record, df >>

\* what pd.read_csv(LOG_PATH) of the recent-entries section comes to
RecentView ==
    IF ~file.exists THEN "nolog"
    ELSE IF ~file.hdr THEN "error"
    ELSE IF file.rows = << >> THEN "empty" ELSE "shown"

\* the recent-entries and export section (it changes nothing, whatever
\* RecentView it comes to); the run ends and its locals die
Recent(s) ==
    /\ pc[s] = "recent"
    /\ pc' = [pc EXCEPT ![s] = "idle"]
    /\ employee_names' = [employee_names EXCEPT ![s] = << >>]
    /\ cand' = [cand EXCEPT ![s] = NoCand]
    /\ submitted' = [submitted EXCEPT ![s] = FALSE]
    /\ errors' = [errors EXCEPT ![s] = << >>]
    /\ record' = [record EXCEPT ![s] = NoRecord]
    /\ df' = [df EXCEPT ![s] = << >>]
    /\ result' = [result EXCEPT ![s] = "none"]
    /\ UNCHANGED << shared, user >>

Run(s, Rosters, scenario) ==
    \/ StartRun(s) \/ EnsureOpen(s) \/ EnsureFlush(s)
    \/ LoggedIn(s, Rosters) \/ DemoLogin(s, Rosters) \/ Form(s, scenario) \/ NotSubmitted(s) \/ Reject(s)
    \/ BuildRecord(s) \/ AppendRead(s) \/ AppendOpen(s) \/ AppendFlush(s)
    \/ Recent(s)

\* every session at work, no roster file, each user typing a batch id and saving
Next == \E s \in Sessions : Run(s, {RosterAbsent}, "ids")

Spec == Init /\ [][Next]_vars

\* one session at work with every widget of the form, any roster file
NextForm == Run("s1", RosterFiles, "form")

SpecForm == Init /\ [][NextForm]_vars

(***************************************************************************)
(* Storage faults of the submit handler's write                            *)
(***************************************************************************)
\* open(LOG_PATH, "w") raises (permission error): nothing is touched, the
\* handler's except branch reports the failure
AppendOpenFail(s) ==
    /\ pc[s] = "append_open"
    /\ result' = [result EXCEPT ![s] = "failed"]
    /\ pc' = [pc EXCEPT ![s] = "recent"]
    /\ UNCHANGED << shared, user, employee_names, cand, submitted, errors,
                    record, df >>

\* the write raises (disk full) after k of the lines went out, the header
\* being the first; the handler's except branch reports the failure
AppendFlushFail(s) ==
    /\ pc[s] = "append_flush"
    /\ \E k \in 0..Len(df[s]) :
          file' = IF k = 0 THEN file
                  ELSE [exists |-> TRUE, hdr |-> TRUE,
                        rows |-> Overlay(file.rows, SubSeq(ToCsv(df[s]), 1, k - 1))]
    /\ result' = [result EXCEPT ![s] = "failed"]
    /\ pc' = [pc EXCEPT ![s] = "recent"]
    /\ UNCHANGED << now, edits, acked, user, employee_names, cand, submitted,
                    errors, record, df >>

\* one session at work on a disk that can fail
NextFault == NextForm \/ AppendOpenFail("s1") \/ AppendFlushFail("s1")

SpecFault == Init /\ [][NextFault]_vars

(***************************************************************************)
(* The log file a first page load can find                                 *)
(***************************************************************************)
\* the file ensure_dirs_and_log leaves: the header line and no data lines
HeaderOnly == [exists |-> TRUE, hdr |-> TRUE, rows |-> << >>]

\* no file, a file of zero bytes (what a to_csv that failed right after
\* opening leaves, see AppendFlushFail), a file with the header line only
StartFiles == {NoFile, Truncated, HeaderOnly}

InitStart ==
    /\ file \in StartFiles
    /\ now = 0
    /\ edits = 0
    /\ acked = << >>
    /\ pc = [s \in Sessions |-> "idle"]
    /\ user = [s \in Sessions |-> None]
    /\ employee_names = [s \in Sessions |-> << >>]
    /\ cand = [s \in Sessions |-> NoCand]
    /\ submitted = [s \in Sessions |-> FALSE]
    /\ errors = [s \in Sessions |-> << >>]
    /\ record = [s \in Sessions |-> NoRecord]
    /\ df = [s \in Sessions |-> << >>]
    /\ result = [s \in Sessions |-> "none"]

\* one session at work, starting from any log file without records
SpecStart == InitStart /\ [][NextForm]_vars

(***************************************************************************)
(* Properties                                                              *)
(***************************************************************************)
IsPrefix(p, q) == Len(p) <= Len(q) /\ SubSeq(q, 1, Len(p)) = p

\* the line to_csv writes for the record a session built
Line(s) == ToCsv(<< record[s] >>)[1]

\* nobody holds the log file open for writing
Quiet == \A s \in Sessions : pc[s] \notin {"ensure_flush", "append_flush"}

\* a session whose submit handler has just confirmed the save
Saved(s) == pc[s] = "recent" /\ result[s] = "saved"

\* C1: when two sessions have both been told that their records, of different
\* batch ids, are saved, both records are lines of the store.
C1_BothAppendsKept ==
    \A s, t \in Sessions :
        (s # t /\ Saved(s) /\ Saved(t)
            /\ record[s]["batch_id"] # record[t]["batch_id"])
        => (Line(s) \in Range(file.rows) /\ Line(t) \in Range(file.rows))

\* C2: the log is append-only: whenever no write is under way, the records
\* whose save was confirmed are the first lines of the store, unchanged and in
\* the order they were confirmed.
C2_AppendOnly == Quiet => IsPrefix(acked, file.rows)

\* C3: after a write that failed, the store still holds as many records as
\* the handler had read from it before the write.
C3_FailedWriteKeepsStore ==
    \A s \in Sessions :
        (pc[s] = "recent" /\ result[s] = "failed" /\ df[s] # << >>)
        => Len(file.rows) >= Len(df[s]) - 1

\* C4: while another session's append is between opening the store and
\* writing it, the recent-entries section does not read a truncated store.
C4_NoTornRead ==
    [][\A s \in Sessions :
          (pc[s] = "recent" /\ pc'[s] = "idle"
              /\ \E t \in Sessions \ {s} : pc[t] = "append_flush")
          => RecentView # "error"]_vars

\* C5: along the lines of the store the timestamps never decrease.
C5_TimestampsOrdered ==
    \A i, j \in 1..Len(file.rows) :
        i < j => ClockOf(file.rows[i]["timestamp"]) <= ClockOf(file.rows[j]["timestamp"])

\* C6: with one session appending one record after another, the store holds
\* exactly the confirmed records, in order, each as it was submitted.
C6_SequentialAppends == Quiet => file.rows = acked

\* C7: the handler of a submitted candidate with an empty batch id holds the
\* missing-id message, shows the rejection and leaves the store as it was.
C7_EmptyIdRejected ==
    [][\A s \in Sessions :
          (pc[s] = "submit" /\ pc'[s] # "submit" /\ submitted[s]
              /\ cand[s].batch_id = "")
          => (MissingIdMsg \in Range(errors[s]) /\ result'[s] = "rejected"
              /\ pc'[s] = "recent" /\ file' = file /\ acked' = acked)]_vars

\* a candidate with an empty batch id was rejected while the store held records
C7_Witness ==
    \E s \in Sessions :
        /\ pc[s] = "recent" /\ result[s] = "rejected"
        /\ submitted[s] /\ cand[s].batch_id = ""
        /\ MissingIdMsg \in Range(errors[s])
        /\ file.rows # << >> /\ file.rows = acked

\* C8: every line of the store has a batch id that is not empty after
\* trimming.
C8_BatchIdNonEmpty ==
    \A i \in 1..Len(file.rows) : Strip(file.rows[i]["batch_id"]) # ""

\* C9: a submitted candidate whose expiration date is before its batch date
\* holds the date-order message and never gets to the append, and every line
\* of the store has an expiration date on or after its batch date.
C9_DateOrder ==
    /\ \A s \in Sessions :
          (submitted[s] /\ cand[s].mix_exp_date < cand[s].batch_date)
          => (DateOrderMsg \in Range(errors[s]) /\ pc[s] \in {"submit", "recent"}
              /\ result[s] \in {"none", "rejected"})
    /\ \A i \in 1..Len(file.rows) :
          DateOf(file.rows[i]["mix_expiration_date"])
              >= DateOf(file.rows[i]["batch_date"])

\* a candidate was rejected for its date order while the store held a record
C9_Witness ==
    /\ \E s \in Sessions :
          /\ pc[s] = "recent" /\ result[s] = "rejected"
          /\ cand[s].mix_exp_date < cand[s].batch_date
          /\ DateOrderMsg \in Range(errors[s])
    /\ \E i \in 1..Len(file.rows) :
          DateOf(file.rows[i]["mix_expiration_date"])
              >= DateOf(file.rows[i]["batch_date"])

\* a name of the record a session built is acceptable for the directory the
\* run loaded: one of its names, or any non-empty text when it is empty
NameOk(cell, names) ==
    /\ cell.k = "str"
    /\ cell.s # ""
    /\ names # << >> => cell.s \in Range(names)

\* C10: operator, mixer and second tester of every record on its way to the
\* store are names of the directory loaded for that submission (non-empty
\* texts when that directory is empty).
C10_NamesFromDirectory ==
    \A s \in Sessions :
        pc[s] \in {"append_read", "append_open", "append_flush"}
        => /\ NameOk(record[s]["freezer_operator"], employee_names[s])
           /\ NameOk(record[s]["mixer_name"], employee_names[s])
           /\ NameOk(record[s]["second_tester_name"], employee_names[s])

\* C11: starting from no log file, a zero-byte log file or a header-only
\* log file, the first validated submission is confirmed as saved and leaves
\* a store with the header and exactly that record, and as long as nothing
\* was saved the recent-entries section reads the store without error.
C11_EmptyStoresEquivalent ==
    \A s \in Sessions :
        /\ (pc[s] = "recent" /\ submitted[s] /\ errors[s] = << >>
                /\ Len(acked) <= 1)
           => (result[s] = "saved" /\ file.exists /\ file.hdr
               /\ file.rows = << Line(s) >>)
        /\ (pc[s] = "recent" /\ acked = << >>) => RecentView # "error"

\* C12: with a directory of two or more names loaded, the second tester a
\* form holds is not the freezer operator; a record on its way to the store,
\* and the line written for it, name the operator as second tester only when
\* the directory holds exactly one name.
C12_OperatorNotSecondTester ==
    \A s \in Sessions :
        /\ (pc[s] \in {"submit", "append_read", "append_open", "append_flush",
                        "recent"}
                /\ Len(employee_names[s]) >= 2)
           => cand[s].second_tester_name # user[s]
        /\ (pc[s] \in {"append_read", "append_open", "append_flush"}
                /\ record[s]["second_tester_name"] = record[s]["freezer_operator"])
           => Len(employee_names[s]) = 1
        /\ (Saved(s) /\ file.rows # << >>
                /\ file.rows[Len(file.rows)]["second_tester_name"]
                       = file.rows[Len(file.rows)]["freezer_operator"])
           => Len(employee_names[s]) = 1

\* a record was saved by an operator who is one of two or more names of the
\* loaded directory, with somebody else as second tester
C12_Witness ==
    \E s \in Sessions :
        /\ Saved(s)
        /\ Len(employee_names[s]) >= 2
        /\ user[s] \in Range(employee_names[s])
        /\ file.rows # << >>
        /\ file.rows[Len(file.rows)]["freezer_operator"] = user[s]
        /\ file.rows[Len(file.rows)]["second_tester_name"] \in Range(employee_names[s])
        /\ file.rows[Len(file.rows)]["second_tester_name"] # user[s]

\* a record was saved with the operator as second tester
C12_SoloWitness ==
    \E s \in Sessions :
        /\ Saved(s)
        /\ Len(employee_names[s]) = 1
        /\ file.rows # << >>
        /\ file.rows[Len(file.rows)]["second_tester_name"] = user[s]

====
